---- MODULE Spec2Model ----
(***************************************************************************)
(* TRSM Intelligence: the raw table fetcher (database.py), the data        *)
(* preparation pipeline (data_preparation.py), the cached loader (app.py)  *)
(* and the RFM scoring (tabs/customers.py).                                *)
(*                                                                         *)
(* Four specifications share this module:                                  *)
(*   Spec     the fetcher with its lru_cache and get_engine;               *)
(*   SpecLoad load_data over the fetcher and prepare_full_data;            *)
(*   SpecPrep prepare_full_data applied to bounded raw tables;             *)
(*   SpecRfm  compute_rfm applied to bounded filtered datasets.            *)
(***************************************************************************)
EXTENDS Integers, Sequences, FiniteSets, TLC

VARIABLES
    credentials,  \* the DB_* environment variables are all set
    engine,       \* get_engine's lru_cache(maxsize=1): "none" or "engine"
    outage,       \* the upstream table that is unreachable, and how its query fails
    cache,        \* fetch_raw_tables' lru_cache: <<[key, val]>>, most recently used last
    memo,         \* load_data's st.cache_data: the keys whose prepared dataset is kept
    used,         \* Spec: the (start, end) keys fetch_raw_tables was called with
    watch,        \* Spec: the key whose first result is remembered
    first,        \* Spec: the first result a call for the watched key returned
    last,         \* what the last call did
    raw,          \* SpecPrep: the raw tables handed to prepare_full_data
    out,          \* SpecPrep: what prepare_full_data did
    fdf,          \* SpecRfm: the filtered dataset handed to compute_rfm
    rfm           \* SpecRfm: what compute_rfm did

vars == <<credentials, engine, outage, cache, memo, used, watch, first, last,
          raw, out, fdf, rfm>>

appVars  == <<credentials, engine, outage, cache, memo, used, watch, first, last>>
prepVars == <<raw, out>>
rfmVars  == <<fdf, rfm>>

(***************************************************************************)
(* Cells.  A DataFrame cell is an integer (numbers, and timestamps counted *)
(* in half days), a string or a null (None / NaN / NaT).  Every cell has   *)
(* the same three fields, so that any two cells can be compared.           *)
(***************************************************************************)
Int_(n) == [t |-> "int", n |-> n, s |-> ""]
Str_(s) == [t |-> "str", n |-> 0, s |-> s]
Null    == [t |-> "null", n |-> 0, s |-> ""]

IsNull(c) == c.t = "null"
IsInt(c)  == c.t = "int"

Digits == <<"0", "1", "2", "3", "4", "5", "6", "7", "8", "9">>

RECURSIVE ToStr(_)
\* Python's str() of a non-negative integer.
ToStr(n) == IF n < 10 THEN Digits[n + 1]
            ELSE ToStr(n \div 10) \o Digits[(n % 10) + 1]

(***************************************************************************)
(* Tables.  A DataFrame is its set of column names and its rows in order;  *)
(* a row is a function from the column names to cells.  An operation that  *)
(* pandas answers with an exception yields Broken(exc), and every later    *)
(* operation hands a broken table on.                                      *)
(***************************************************************************)
Table(cols, rows) == [cols |-> cols, rows |-> rows, exc |-> ""]
Broken(exc)       == [cols |-> {}, rows |-> <<>>, exc |-> exc]
IsBroken(t)       == t.exc # ""

\* pd.DataFrame(): no columns and no rows.
EmptyDataFrame == Table({}, <<>>)

\* DataFrame.empty: some axis has length 0.
IsEmpty(t) == Len(t.rows) = 0 \/ t.cols = {}

Column(t, c) == [i \in DOMAIN t.rows |-> t.rows[i][c]]

\* Series.astype(str) of one cell, in a column read by pd.read_sql: an integer
\* column that holds a NULL arrives as float64, so 1 prints "1.0" and the NULL
\* "nan"; an object column keeps its strings and prints None as "None".
CastCell(c, floatCol) ==
    CASE c.t = "int"  -> Str_(IF floatCol THEN ToStr(c.n) \o ".0" ELSE ToStr(c.n))
      [] c.t = "str"  -> c
      [] c.t = "null" -> Str_(IF floatCol THEN "nan" ELSE "None")

\* t[c] = t[c].astype(str); KeyError when t has no column c.
AsTypeStr(t, c) ==
    IF IsBroken(t) THEN t
    ELSE IF c \notin t.cols THEN Broken("KeyError")
    ELSE LET col      == Column(t, c)
             floatCol == /\ \E i \in DOMAIN col : IsNull(col[i])
                         /\ \E i \in DOMAIN col : IsInt(col[i])
         IN  Table(t.cols,
                   [i \in DOMAIN t.rows |->
                       [t.rows[i] EXCEPT ![c] = CastCell(@, floatCol)]])

\* DataFrame.rename(columns={old: new}); a name that is not a column is ignored.
Rename(t, old, new) ==
    IF IsBroken(t) \/ old \notin t.cols THEN t
    ELSE LET cols == (t.cols \ {old}) \cup {new}
         IN  Table(cols,
                   [i \in DOMAIN t.rows |->
                       [c \in cols |-> IF c = new THEN t.rows[i][old]
                                       ELSE t.rows[i][c]]])

RECURSIVE Flatten(_)
Flatten(ss) == IF ss = <<>> THEN <<>> ELSE Head(ss) \o Flatten(Tail(ss))

\* One row of a merge: the left row extended by the right row's other columns
\* (nulls when nothing matched).  The tables merged here share only the key.
Joined(l, r, cols, matched) ==
    [c \in cols |-> IF c \in DOMAIN l THEN l[c]
                    ELSE IF matched THEN r[c] ELSE Null]

\* Merge with every join an inner join.
MergeAlwaysInner(left, right, on, how) ==
    IF IsBroken(left) THEN left
    ELSE IF IsBroken(right) THEN right
    ELSE IF on \notin left.cols \/ on \notin right.cols THEN Broken("KeyError")
    ELSE LET cols == left.cols \cup right.cols
             For(l) ==
                 LET ms == SelectSeq(right.rows, LAMBDA r : r[on] = l[on])
                 IN  [j \in DOMAIN ms |-> Joined(l, ms[j], cols, TRUE)]
         IN  Table(cols, Flatten([i \in DOMAIN left.rows |-> For(left.rows[i])]))

\* DataFrame.merge(right, on=on, how=how) for how in {"inner", "left"}: the
\* left rows in order, each once per matching right row in the right's order;
\* a left join keeps an unmatched left row once.  KeyError when either side
\* has no column `on`.
Merge(left, right, on, how) ==
    IF IsBroken(left) THEN left
    ELSE IF IsBroken(right) THEN right
    ELSE IF on \notin left.cols \/ on \notin right.cols THEN Broken("KeyError")
    ELSE LET cols == left.cols \cup right.cols
             For(l) ==
                 LET ms == SelectSeq(right.rows, LAMBDA r : r[on] = l[on])
                 IN  IF ms = <<>>
                     THEN IF how = "left"
                          THEN <<Joined(l, l, cols, FALSE)>>
                          ELSE <<>>
                     ELSE [j \in DOMAIN ms |-> Joined(l, ms[j], cols, TRUE)]
         IN  Table(cols, Flatten([i \in DOMAIN left.rows |-> For(left.rows[i])]))

\* df[c] = vals, a value per row: adds or replaces column c.
WithCol(t, c, vals) ==
    IF IsBroken(t) THEN t
    ELSE LET cols == t.cols \cup {c}
         IN  Table(cols,
                   [i \in DOMAIN t.rows |->
                       [k \in cols |-> IF k = c THEN vals[i] ELSE t.rows[i][k]]])

\* df[cs] = df[cs].fillna(v); KeyError when a column of cs is missing.
FillNa(t, cs, v) ==
    IF IsBroken(t) THEN t
    ELSE IF ~(cs \subseteq t.cols) THEN Broken("KeyError")
    ELSE Table(t.cols,
               [i \in DOMAIN t.rows |->
                   [k \in t.cols |-> IF k \in cs /\ IsNull(t.rows[i][k]) THEN v
                                     ELSE t.rows[i][k]]])

(***************************************************************************)
(* prepare_full_data (data_preparation.py)                                 *)
(***************************************************************************)

\* Step 0: the key columns cast to str, in the order of the code.
CastPlan ==
    << <<"orders", "CustomerId">>, <<"orders", "OrderId">>,
       <<"orders", "SalesRepId">>, <<"orders", "ShippingMethodRequested">>,
       <<"order_lines", "OrderId">>, <<"order_lines", "OrderLineId">>,
       <<"order_lines", "ProductId">>, <<"order_lines", "ShipperId">>,
       <<"customers", "CustomerId">>, <<"customers", "RegionId">>,
       <<"products", "ProductId">>, <<"products", "SupplierId">>,
       <<"regions", "RegionId">>, <<"shippers", "ShipperId">>,
       <<"suppliers", "SupplierId">> >>

RECURSIVE CastAll(_, _)
\* The casts are assignments into the tables of `tabs`; the first KeyError
\* ends them and leaves the casts already made in place.
CastAll(tabs, plan) ==
    IF plan = <<>> THEN [raw |-> tabs, exc |-> ""]
    ELSE LET name == Head(plan)[1]
             cast == AsTypeStr(tabs[name], Head(plan)[2])
         IN  IF IsBroken(cast) THEN [raw |-> tabs, exc |-> cast.exc]
             ELSE CastAll([tabs EXCEPT ![name] = cast], Tail(plan))

\* The shipping-methods key renamed to the orders' column, then cast.
CastShippingMethods(tabs) ==
    LET renamed == Rename(tabs.shipping_methods, "SMId", "ShippingMethodRequested")
        cast    == AsTypeStr(renamed, "ShippingMethodRequested")
    IN  IF IsBroken(cast)
        THEN [raw |-> [tabs EXCEPT !.shipping_methods = renamed], exc |-> cast.exc]
        ELSE [raw |-> [tabs EXCEPT !.shipping_methods = cast], exc |-> ""]

CastKeys(tabs) ==
    LET a == CastAll(tabs, CastPlan)
    IN  IF a.exc # "" THEN a ELSE CastShippingMethods(a.raw)

\* Step 1: orders joined to their order lines.
MergeOrders(tabs) == Merge(tabs.orders, tabs.order_lines, "OrderId", "inner")

\* Step 2: the six lookups, left-joined in the order of the dict.
Lookups ==
    << <<"CustomerId", "customers">>, <<"ProductId", "products">>,
       <<"RegionId", "regions">>, <<"ShipperId", "shippers">>,
       <<"SupplierId", "suppliers">>,
       <<"ShippingMethodRequested", "shipping_methods">> >>

RECURSIVE MergeLookups(_, _, _)
MergeLookups(df, tabs, joins) ==
    IF joins = <<>> THEN df
    ELSE MergeLookups(Merge(df, tabs[Head(joins)[2]], Head(joins)[1], "left"),
                      tabs, Tail(joins))

RECURSIVE SumCells(_)
\* Series.sum(): nulls are skipped, and nothing sums to 0.
SumCells(cs) ==
    IF cs = <<>> THEN 0
    ELSE (IF IsInt(Head(cs)) THEN Head(cs).n ELSE 0) + SumCells(Tail(cs))

\* Series.max(): nulls are skipped, and nothing gives a null.
MaxCell(cs) ==
    LET present == {cs[i].n : i \in {j \in DOMAIN cs : IsInt(cs[j])}}
    IN  IF present = {} THEN Null
        ELSE Int_(CHOOSE m \in present : \A x \in present : x <= m)

RECURSIVE Distinct(_)
\* The values of a sequence, each once, in the order of first appearance.
Distinct(xs) ==
    IF xs = <<>> THEN <<>>
    ELSE LET rest == Distinct(SelectSeq(Tail(xs), LAMBDA x : x # Head(xs)))
         IN  <<Head(xs)>> \o rest

\* packs.groupby('OrderLineId', as_index=False).agg(WeightLb sum, ItemCount
\* sum, DeliveryDate max): one row per key.  (pandas orders the groups by key;
\* the left join that follows does not depend on that order.)
PackSummary(packs) ==
    IF IsBroken(packs) THEN packs
    ELSE IF ~({"OrderLineId", "WeightLb", "ItemCount", "DeliveryDate"}
                \subseteq packs.cols)
    THEN Broken("KeyError")
    ELSE LET keys == Distinct(SelectSeq(Column(packs, "OrderLineId"),
                                        LAMBDA k : ~IsNull(k)))
             Of(k) == SelectSeq(packs.rows, LAMBDA r : r.OrderLineId = k)
             Col(k, c) == [i \in DOMAIN Of(k) |-> Of(k)[i][c]]
         IN  Table({"OrderLineId", "WeightLb", "ItemCount", "DeliveryDate"},
                   [i \in DOMAIN keys |->
                       [OrderLineId  |-> keys[i],
                        WeightLb     |-> Int_(SumCells(Col(keys[i], "WeightLb"))),
                        ItemCount    |-> Int_(SumCells(Col(keys[i], "ItemCount"))),
                        DeliveryDate |-> MaxCell(Col(keys[i], "DeliveryDate"))]])

\* The packs table as step 3 leaves it: its key cast, and copied to OrderLineId.
PacksKeyed(packs) ==
    LET cast == AsTypeStr(packs, "PickedForOrderLine")
    IN  WithCol(cast, "OrderLineId", Column(cast, "PickedForOrderLine"))

\* Step 3: the pack summary left-joined, WeightLb and ItemCount defaulting to
\* 0.  All of it is skipped when the packs table is empty.
MergePacks(df, packs) ==
    IF IsEmpty(packs) THEN df
    ELSE FillNa(Merge(df, PackSummary(PacksKeyed(packs)), "OrderLineId", "left"),
                {"WeightLb", "ItemCount"}, Int_(0))

\* pd.to_numeric(errors='coerce') of one cell: a number stays, a string that
\* spells a number is read, anything else becomes NaN.
ToNumeric(c) ==
    CASE c.t = "int"  -> c
      [] c.t = "null" -> Null
      [] c.t = "str"  -> IF \E n \in 0..20 : ToStr(n) = c.s
                         THEN Int_(CHOOSE n \in 0..20 : ToStr(n) = c.s)
                         ELSE Null

NumCols == {"QuantityShipped", "SalePrice", "UnitCost", "WeightLb", "ItemCount"}

\* Step 4: df[numcols] = df[numcols].apply(pd.to_numeric, errors='coerce')
\* .fillna(0.0); KeyError when one of the five columns is missing.
Coerce(df) ==
    IF IsBroken(df) THEN df
    ELSE IF ~(NumCols \subseteq df.cols) THEN Broken("KeyError")
    ELSE FillNa(Table(df.cols,
                      [i \in DOMAIN df.rows |->
                          [k \in df.cols |-> IF k \in NumCols
                                             THEN ToNumeric(df.rows[i][k])
                                             ELSE df.rows[i][k]]]),
                NumCols, Int_(0))

\* (df['UnitOfBillingId'] == 3) & (df['WeightLb'] > 0)
IsWeight(r) == r.UnitOfBillingId = Int_(3) /\ r.WeightLb.n > 0

\* Step 5.  per_item = WeightLb / ItemCount.replace(0, NaN), and the other
\* branch is ItemCount * per_item.fillna(0): WeightLb again when ItemCount is
\* not 0 (in exact arithmetic), else 0.
ShippedWeightLb(r) ==
    IF IsWeight(r) THEN r.WeightLb
    ELSE IF r.ItemCount.n = 0 THEN Int_(0) ELSE r.WeightLb

\* Revenue by the quantity shipped in place of the pack counts.
RevenueByQuantityShipped(r) ==
    IF IsWeight(r) THEN Int_(r.WeightLb.n * r.SalePrice.n)
    ELSE Int_(r.QuantityShipped.n * r.SalePrice.n)

\* Step 6.
Revenue(r) ==
    IF IsWeight(r) THEN Int_(r.WeightLb.n * r.SalePrice.n)
    ELSE Int_(r.ItemCount.n * r.SalePrice.n)

Cost(r) ==
    IF IsWeight(r) THEN Int_(r.WeightLb.n * r.UnitCost.n)
    ELSE Int_(r.ItemCount.n * r.UnitCost.n)

Profit(r) == Int_(r.Revenue.n - r.Cost.n)

\* pd.to_datetime(errors='coerce') of one cell: a timestamp stays (timestamps
\* count half days, so that a value has a time of day), anything else is NaT.
ToDatetime(c) == IF IsInt(c) THEN c ELSE Null

\* Series.dt.normalize(): the time of day dropped.
Normalize(c) == IF IsInt(c) THEN Int_(c.n - (c.n % 2)) ELSE Null

\* The whole days of the difference without the clip at 0.
TransitDaysUnclipped(r) ==
    IF IsNull(r.DeliveryDate) \/ IsNull(r.ShipDate) THEN Null
    ELSE Int_((r.DeliveryDate.n - r.ShipDate.n) \div 2)

\* (DeliveryDate - ShipDate).dt.days.clip(lower=0): the whole days of the
\* difference, rounded down, and 0 in place of a negative count; NaN when a
\* date is missing.
TransitDays(r) ==
    IF IsNull(r.DeliveryDate) \/ IsNull(r.ShipDate) THEN Null
    ELSE LET days == (r.DeliveryDate.n - r.ShipDate.n) \div 2
         IN  Int_(IF days < 0 THEN 0 ELSE days)

\* np.where(DeliveryDate <= to_datetime(DateExpected), 'On Time', 'Late'): a
\* comparison with NaT is False.
DeliveryStatus(r) ==
    LET expected == ToDatetime(r.DateExpected)
    IN  IF /\ ~IsNull(r.DeliveryDate)
           /\ ~IsNull(expected)
           /\ r.DeliveryDate.n <= expected.n
        THEN Str_("On Time") ELSE Str_("Late")

\* row[c] = v: the row with column c added or replaced.
Assign(r, c, v) ==
    [k \in (DOMAIN r) \cup {c} |-> IF k = c THEN v ELSE r[k]]

DerivedCols == {"ShippedWeightLb", "Revenue", "Cost", "Profit", "Date",
                "TransitDays", "DeliveryStatus"}

\* Steps 5 to 7 for one row, column by column in the order of the code.
DeriveRow(r) ==
    LET r5  == Assign(r, "ShippedWeightLb", ShippedWeightLb(r))
        r6a == Assign(r5, "Revenue", Revenue(r5))
        r6b == Assign(r6a, "Cost", Cost(r6a))
        r6c == Assign(r6b, "Profit", Profit(r6b))
        r7a == Assign(r6c, "Date", Normalize(ToDatetime(r6c.CreatedAt_order)))
        r7b == Assign(r7a, "ShipDate", ToDatetime(r7a.ShipDate))
        r7c == Assign(r7b, "DeliveryDate", ToDatetime(r7b.DeliveryDate))
        r7d == Assign(r7c, "TransitDays", TransitDays(r7c))
    IN  Assign(r7d, "DeliveryStatus", DeliveryStatus(r7d))

\* Steps 5 to 7, column by column; KeyError when a column read is missing.
Derive(df) ==
    IF IsBroken(df) THEN df
    ELSE IF ~({"UnitOfBillingId", "CreatedAt_order", "ShipDate", "DeliveryDate",
               "DateExpected"} \subseteq df.cols)
    THEN Broken("KeyError")
    ELSE Table(df.cols \cup DerivedCols,
               [i \in DOMAIN df.rows |-> DeriveRow(df.rows[i])])

NoTables == <<>>

\* What a call did: the value it returned or the exception it raised, and the
\* caller's tables as it left them.
Returned(v) == [status |-> "returned", exc |-> "", val |-> v, raw |-> NoTables]
Raised(exc) == [status |-> "raised", exc |-> exc, val |-> Broken(exc), raw |-> NoTables]
Pending     == [status |-> "pending", exc |-> "", val |-> EmptyDataFrame, raw |-> NoTables]

\* The tables of `tabs` as prepare_full_data leaves them: it casts the keys,
\* renames the shipping-methods key and adds packs.OrderLineId in the caller's
\* own tables.
RawAfter(tabs) ==
    LET k == CastKeys(tabs)
    IN  IF k.exc # "" \/ IsEmpty(k.raw.packs) \/ IsBroken(PacksKeyed(k.raw.packs))
        THEN k.raw
        ELSE [k.raw EXCEPT !.packs = PacksKeyed(k.raw.packs)]

\* prepare_full_data(raw): the prepared dataset, or the exception that the
\* except clause logs and raises again.
PrepareFullData(tabs) ==
    LET k == CastKeys(tabs)
    IN  IF k.exc # "" THEN Raised(k.exc)
        ELSE LET df2 == MergeLookups(MergeOrders(k.raw), k.raw, Lookups)
                 df3 == MergePacks(df2, k.raw.packs)
                 df7 == Derive(Coerce(df3))
             IN  IF IsBroken(df7) THEN Raised(df7.exc) ELSE Returned(df7)

(***************************************************************************)
(* The upstream tables, as the queries of fetch_raw_tables select them.    *)
(* Keys are integers upstream; timestamps count half days of January 2023  *)
(* (day d at midnight is 2 * d).                                           *)
(***************************************************************************)
Tables == <<"orders", "order_lines", "customers", "products", "regions",
            "shippers", "shipping_methods", "suppliers", "packs">>

Columns(name) ==
    CASE name = "orders" ->
             {"OrderId", "CustomerId", "SalesRepId", "CreatedAt_order",
              "DateOrdered", "DateExpected", "ShipDate", "ShippingMethodRequested"}
      [] name = "order_lines" ->
             {"OrderLineId", "OrderId", "ProductId", "ShipperId",
              "QuantityShipped", "SalePrice", "UnitCost", "DateShipped"}
      [] name = "customers" -> {"CustomerId", "CustomerName", "RegionId", "IsRetail"}
      [] name = "products" ->
             {"ProductId", "SKU", "ProductName", "UnitOfBillingId", "SupplierId",
              "ProductListPrice", "CostPrice"}
      [] name = "regions" -> {"RegionId", "RegionName"}
      [] name = "shippers" -> {"ShipperId", "Carrier"}
      [] name = "shipping_methods" -> {"SMId", "ShippingMethodName"}
      [] name = "suppliers" -> {"SupplierId", "SupplierName"}
      [] name = "packs" -> {"PickedForOrderLine", "WeightLb", "ItemCount", "DeliveryDate"}

\* The key of each lookup table, as its query names it.
LookupKey(name) ==
    CASE name = "customers" -> "CustomerId"
      [] name = "products" -> "ProductId"
      [] name = "regions" -> "RegionId"
      [] name = "shippers" -> "ShipperId"
      [] name = "shipping_methods" -> "SMId"
      [] name = "suppliers" -> "SupplierId"

LookupNames == {"customers", "products", "regions", "shippers",
                "shipping_methods", "suppliers"}

MaxOrders == 2
MaxLines  == 2
MaxPacks  == 2

Day(d) == Int_(2 * d)
Noon(d) == Int_(2 * d + 1)

\* Ids 1 and 2 alternate over the rows of a table.
Alt(i) == ((i - 1) % 2) + 1

OrderRow(i, ship, expected) ==
    [OrderId |-> Int_(i), CustomerId |-> Int_(Alt(i)), SalesRepId |-> Int_(1),
     CreatedAt_order |-> IF i = 1 THEN Day(5) ELSE Noon(5 + i),
     DateOrdered |-> Day(5),
     DateExpected |-> IF i = 1 THEN expected ELSE Day(10),
     ShipDate |-> IF i = 1 THEN ship ELSE Day(7),
     ShippingMethodRequested |-> Int_(1)]

\* The second order line has no price.
LineRow(j, orderId) ==
    [OrderLineId |-> Int_(j), OrderId |-> Int_(orderId), ProductId |-> Int_(Alt(j)),
     ShipperId |-> Int_(1), QuantityShipped |-> Int_(2),
     SalePrice |-> IF j = 2 THEN Null ELSE Int_(10),
     UnitCost |-> Int_(4), DateShipped |-> Day(7)]

PackRow(line, weight, items, delivered) ==
    [PickedForOrderLine |-> Int_(line), WeightLb |-> Int_(weight),
     ItemCount |-> Int_(items), DeliveryDate |-> delivered]

\* The lookup tables with rows for the ids 1 and 2; product 1 is billed by
\* `billing` (3: by weight).
LookupRows(name, billing) ==
    CASE name = "customers" ->
             <<[CustomerId |-> Int_(1), CustomerName |-> Str_("Acme"),
                RegionId |-> Int_(1), IsRetail |-> Int_(1)],
               [CustomerId |-> Int_(2), CustomerName |-> Str_("Bolt"),
                RegionId |-> Int_(2), IsRetail |-> Int_(0)]>>
      [] name = "products" ->
             <<[ProductId |-> Int_(1), SKU |-> Str_("S1"), ProductName |-> Str_("Beef"),
                UnitOfBillingId |-> Int_(billing), SupplierId |-> Int_(1),
                ProductListPrice |-> Int_(12), CostPrice |-> Int_(4)],
               [ProductId |-> Int_(2), SKU |-> Str_("S2"), ProductName |-> Str_("Pork"),
                UnitOfBillingId |-> Int_(1), SupplierId |-> Int_(2),
                ProductListPrice |-> Int_(9), CostPrice |-> Int_(3)]>>
      [] name = "regions" ->
             <<[RegionId |-> Int_(1), RegionName |-> Str_("North")],
               [RegionId |-> Int_(2), RegionName |-> Str_("South")]>>
      [] name = "shippers" ->
             <<[ShipperId |-> Int_(1), Carrier |-> Str_("UPS")],
               [ShipperId |-> Int_(2), Carrier |-> Str_("DHL")]>>
      [] name = "shipping_methods" ->
             <<[SMId |-> Int_(1), ShippingMethodName |-> Str_("Ground")],
               [SMId |-> Int_(2), ShippingMethodName |-> Str_("Air")]>>
      [] name = "suppliers" ->
             <<[SupplierId |-> Int_(1), SupplierName |-> Str_("FarmCo")],
               [SupplierId |-> Int_(2), SupplierName |-> Str_("Ranch")]>>

\* What a lookup table may hold: its two rows, no row at all, or its first
\* row twice (a key that is not unique upstream).
LookupVariants ==
    {[table |-> "none", kind |-> k] : k \in {"weight", "item"}}
        \cup {[table |-> n, kind |-> k] : n \in LookupNames, k \in {"empty", "dup"}}

LookupTable(name, variant) ==
    LET rows == LookupRows(name, IF variant.kind = "item" THEN 1 ELSE 3)
    IN  Table(Columns(name),
              IF variant.table # name THEN rows
              ELSE IF variant.kind = "empty" THEN <<>>
              ELSE rows \o <<rows[1]>>)

\* The packs tables: none, or a first pack for order line 1 (not delivered,
\* delivered before the ship date, or in time) and further packs, delivered
\* late, that all belong to order line `other`.
PackTables ==
    {<<>>} \cup
    {<<PackRow(1, w, c, d)>> \o [p \in 1..n |-> PackRow(other, 3, 1, Noon(12))] :
        w \in {0, 5}, c \in {0, 2}, d \in {Null, Noon(6), Day(9)},
        n \in 0..(MaxPacks - 1), other \in {1, 2}}

\* The order lines: all of order 1, or line j of order j.
LineTables ==
    {[j \in 1..n |-> LineRow(j, IF spread THEN j ELSE 1)] :
        n \in 1..MaxLines, spread \in BOOLEAN}

\* The orders: the first with both dates, without ShipDate or without
\* DateExpected.
OrderTables ==
    {[i \in 1..n |-> OrderRow(i, dates[1], dates[2])] :
        n \in 1..MaxOrders,
        dates \in {<<Day(7), Day(10)>>, <<Null, Day(10)>>, <<Day(7), Null>>}}

RawTables(orders, lines, variant, packs) ==
    [orders           |-> Table(Columns("orders"), orders),
     order_lines      |-> Table(Columns("order_lines"), lines),
     customers        |-> LookupTable("customers", variant),
     products         |-> LookupTable("products", variant),
     regions          |-> LookupTable("regions", variant),
     shippers         |-> LookupTable("shippers", variant),
     shipping_methods |-> LookupTable("shipping_methods", variant),
     suppliers        |-> LookupTable("suppliers", variant),
     packs            |-> Table(Columns("packs"), packs)]


(***************************************************************************)
(* SpecPrep: prepare_full_data applied once to raw tables drawn from the   *)
(* bounded sets above.                                                     *)
(***************************************************************************)
\* prepare_full_data(raw), with what it leaves in the caller's tables.
Prepare ==
    /\ out.status = "pending"
    /\ out' = [PrepareFullData(raw) EXCEPT !.raw = RawAfter(raw)]
    /\ UNCHANGED <<raw, appVars, rfmVars>>

(***************************************************************************)
(* The fetcher (database.py) and the loader (app.py).                      *)
(*                                                                         *)
(* A (start_date, end_date) pair is a key 1..NumKeys.  What fetch_raw_     *)
(* tables returns is written as the key it was fetched for and the set of  *)
(* tables whose query failed; TablesOf gives the nine DataFrames.          *)
(***************************************************************************)
NumKeys == 3

\* lru_cache(maxsize=32) on fetch_raw_tables, scaled down so that the cache
\* fills and evicts within NumKeys keys.
maxsize == 2

Keys == 1..NumKeys

\* The rows upstream holds for the date range of key k: Alt(k) orders with one
\* order line each, and a pack for every order line.
Upstream(k) ==
    RawTables([i \in 1..Alt(k) |-> OrderRow(i, Day(7), Day(10))],
              [j \in 1..Alt(k) |-> LineRow(j, j)],
              [table |-> "none", kind |-> "weight"],
              [j \in 1..Alt(k) |-> PackRow(j, 5, 2, Day(9))])

TableSet == {Tables[i] : i \in DOMAIN Tables}

NoResult == [key |-> 0, failed |-> {}]

\* The dict of DataFrames a result stands for: pd.DataFrame() for a table
\* whose query failed, the rows read for the others.
TablesOf(res) ==
    [name \in TableSet |-> IF name \in res.failed THEN EmptyDataFrame
                           ELSE Upstream(res.key)[name]]

NoOutage == [table |-> "", kind |-> "", active |-> FALSE]

\* get_engine(), under lru_cache(maxsize=1): the engine made before, or a new
\* one, or RuntimeError when a credential is missing (nothing is cached then).
GetEngine(eng, creds) ==
    IF eng = "engine" THEN [status |-> "returned", engine |-> eng]
    ELSE IF ~creds THEN [status |-> "raised", engine |-> eng]
    ELSE [status |-> "returned", engine |-> "engine"]

RECURSIVE RunQueries(_, _, _, _, _)
\* The loop over the queries, in the order of the dict: pd.read_sql per table;
\* a SQLAlchemyError is logged and the table set to pd.DataFrame(); any other
\* exception leaves the loop and the function.
RunQueries(k, todo, down, failed, n) ==
    IF todo = <<>>
    THEN [status |-> "returned", exc |-> "", val |-> [key |-> k, failed |-> failed],
          queries |-> n]
    ELSE IF down.active /\ down.table = Head(todo)
    THEN IF down.kind = "SQLAlchemyError"
         THEN RunQueries(k, Tail(todo), down, failed \cup {Head(todo)}, n + 1)
         ELSE [status |-> "raised", exc |-> down.kind, val |-> NoResult,
               queries |-> n + 1]
    ELSE RunQueries(k, Tail(todo), down, failed, n + 1)

\* The body of fetch_raw_tables(start_date, end_date).
FetchBody(k, eng, creds, down) ==
    IF GetEngine(eng, creds).status = "raised"
    THEN [status |-> "raised", exc |-> "RuntimeError", val |-> NoResult, queries |-> 0]
    ELSE RunQueries(k, Tables, down, {}, 0)

Cached(c, k) == \E i \in DOMAIN c : c[i].key = k
Lookup(c, k) == c[CHOOSE i \in DOMAIN c : c[i].key = k].val

\* A cache hit moves the entry to the most recently used end.
Touch(c, k) ==
    SelectSeq(c, LAMBDA e : e.key # k) \o SelectSeq(c, LAMBDA e : e.key = k)

\* Store with the entry evicted one insertion too early.
StoreEvictingEarly(c, k, v) ==
    LET grown == Append(c, [key |-> k, val |-> v])
    IN  IF Len(grown) >= maxsize THEN Tail(grown) ELSE grown

\* A miss that returned stores its result, and the least recently used entry
\* goes when the cache is over its size.
Store(c, k, v) ==
    LET grown == Append(c, [key |-> k, val |-> v])
    IN  IF Len(grown) > maxsize THEN Tail(grown) ELSE grown

\* fetch_raw_tables(k) through its lru_cache: the cached result without running
\* the body, or the body's result, cached unless the body raised.
FetchRawTablesCall(k, c, eng, creds, down) ==
    IF Cached(c, k)
    THEN [status |-> "returned", exc |-> "", val |-> Lookup(c, k), queries |-> 0,
          cache |-> Touch(c, k), engine |-> eng]
    ELSE LET b == FetchBody(k, eng, creds, down)
         IN  [status |-> b.status, exc |-> b.exc, val |-> b.val, queries |-> b.queries,
              cache |-> IF b.status = "returned" THEN Store(c, k, b.val) ELSE c,
              engine |-> GetEngine(eng, creds).engine]

\* What the last call did.  status, exc, val and queries are those of the call
\* of fetch_raw_tables (when `called`), `broke` the table whose query raised in
\* it, `reachable` that no table was unreachable during the call, `again` that
\* an earlier call for the watched key had returned, and `load` what load_data
\* did.
NotLoaded == [status |-> "", exc |-> "", from |-> NoResult]

NoCall ==
    [op |-> "none", key |-> 0, called |-> FALSE, again |-> FALSE, broke |-> "",
     reachable |-> TRUE,
     status |-> "", exc |-> "", val |-> NoResult, queries |-> 0, load |-> NotLoaded]

CallRecord(op, k, r, load) ==
    [op |-> op, key |-> k, called |-> TRUE,
     again |-> (k = watch /\ first # NoResult),
     broke |-> IF r.queries > 0 /\ outage.active THEN outage.table ELSE "",
     reachable |-> ~outage.active,
     status |-> r.status, exc |-> r.exc, val |-> r.val, queries |-> r.queries,
     load |-> load]

\* A caller calls fetch_raw_tables(start, end).
FetchRawTables(k) ==
    LET r == FetchRawTablesCall(k, cache, engine, credentials, outage)
    IN  /\ cache' = r.cache
        /\ engine' = r.engine
        /\ used' = used \cup {k}
        /\ first' = IF k = watch /\ first = NoResult /\ r.status = "returned"
                    THEN r.val ELSE first
        /\ last' = CallRecord("fetch", k, r, NotLoaded)
        /\ UNCHANGED <<credentials, outage, memo, watch, prepVars, rfmVars>>

\* The results fetch_raw_tables can return: at most one table is unreachable
\* at a time.
Results ==
    {[key |-> k, failed |-> f] :
        k \in Keys, f \in {{}} \cup {{t} : t \in TableSet}}

\* prepare_full_data(raw) for each of them.
Prepared == [res \in Results |-> PrepareFullData(TablesOf(res))]

\* prepare_full_data applied to the tables of a fetched result: whether it
\* returned, and from which result; DatasetOf gives the dataset.
Loaded(res) ==
    [status |-> Prepared[res].status, exc |-> Prepared[res].exc, from |-> res]

DatasetOf(res) == Prepared[res].val

Memoized(k) == \E m \in memo : m.key = k

\* load_data(start, end) under st.cache_data: the dataset kept for the key, or
\* prepare_full_data(fetch_raw_tables(start, end)), kept when it returns.
LoadData(k) ==
    IF Memoized(k)
    THEN /\ last' = [NoCall EXCEPT
                        !.op = "load", !.key = k,
                        !.load = Loaded((CHOOSE m \in memo : m.key = k).val)]
         /\ UNCHANGED <<credentials, engine, outage, cache, memo, used, watch, first,
                        prepVars, rfmVars>>
    ELSE LET r == FetchRawTablesCall(k, cache, engine, credentials, outage)
             p == IF r.status = "returned" THEN Loaded(r.val)
                  ELSE [status |-> "raised", exc |-> r.exc, from |-> NoResult]
         IN  /\ cache' = r.cache
             /\ engine' = r.engine
             /\ last' = CallRecord("load", k, r, p)
             /\ memo' = IF p.status = "returned"
                        THEN memo \cup {[key |-> k, val |-> r.val]} ELSE memo
             /\ UNCHANGED <<credentials, outage, used, watch, first,
                            prepVars, rfmVars>>

\* The upstream table becomes unreachable, and reachable again.
OutageBegins ==
    /\ ~outage.active
    /\ outage' = [outage EXCEPT !.active = TRUE]
    /\ UNCHANGED <<credentials, engine, cache, memo, used, watch, first, last,
                   prepVars, rfmVars>>

OutageEnds ==
    /\ outage.active
    /\ outage' = [outage EXCEPT !.active = FALSE]
    /\ UNCHANGED <<credentials, engine, cache, memo, used, watch, first, last,
                   prepVars, rfmVars>>

\* Query failures: the one the loop catches, and any exception that is not a
\* SQLAlchemyError.
FailureKinds == {"SQLAlchemyError", "Exception"}

AppIdle ==
    /\ credentials = FALSE
    /\ engine = "none"
    /\ outage = NoOutage
    /\ cache = <<>>
    /\ memo = {}
    /\ used = {}
    /\ watch = 0
    /\ first = NoResult
    /\ last = NoCall

PrepIdle == raw = NoTables /\ out = Pending
RfmIdle  == fdf = <<>> /\ rfm = [status |-> "pending", exc |-> "", val |-> <<>>]

Outages ==
    {[table |-> t, kind |-> f, active |-> FALSE] : t \in TableSet, f \in FailureKinds}

\* Spec: callers of fetch_raw_tables (load_data is one) and the upstream.  One
\* table, drawn at the start, is the one that becomes unreachable; `watch`,
\* `first` and `used` record the calls.
Init ==
    /\ credentials \in BOOLEAN
    /\ engine = "none"
    /\ outage \in Outages
    /\ cache = <<>>
    /\ memo = {}
    /\ used = {}
    /\ watch \in Keys
    /\ first = NoResult
    /\ last = NoCall
    /\ PrepIdle
    /\ RfmIdle

Next ==
    \/ \E k \in Keys : FetchRawTables(k)
    \/ OutageBegins
    \/ OutageEnds

Spec == Init /\ [][Next]_vars

\* SpecLoad: the application, which reaches the fetcher through load_data.
InitLoad ==
    /\ credentials \in BOOLEAN
    /\ engine = "none"
    /\ outage \in Outages
    /\ cache = <<>>
    /\ memo = {}
    /\ used = {}
    /\ watch = 0
    /\ first = NoResult
    /\ last = NoCall
    /\ PrepIdle
    /\ RfmIdle

NextLoad ==
    \/ \E k \in Keys : LoadData(k)
    \/ OutageBegins
    \/ OutageEnds

SpecLoad == InitLoad /\ [][NextLoad]_vars

\* The packs query joins the packs to the order lines of the range: every pack
\* read belongs to an order line read.
InitPrep ==
    /\ \E o \in OrderTables, l \in LineTables, v \in LookupVariants, p \in PackTables :
           /\ \A i \in DOMAIN p : p[i].PickedForOrderLine.n <= Len(l)
           /\ raw = RawTables(o, l, v, p)
    /\ out = Pending
    /\ AppIdle
    /\ RfmIdle

NextPrep == Prepare

SpecPrep == InitPrep /\ [][NextPrep]_vars

(***************************************************************************)
(* compute_rfm (tabs/customers.py).  The filtered dataset is reduced to    *)
(* the four columns read: CustomerName, Date (a day number), OrderId and   *)
(* Revenue.                                                                *)
(***************************************************************************)
MaxCustomers == 4
MaxFreq      == 3
MaxLevel     == 3

RECURSIVE SumSeq(_)
SumSeq(xs) == IF xs = <<>> THEN 0 ELSE Head(xs) + SumSeq(Tail(xs))

Max(S) == CHOOSE m \in S : \A x \in S : x <= m
Min(S) == CHOOSE m \in S : \A x \in S : m <= x

RECURSIVE Sorted(_)
\* The values of a sequence in ascending order.
Sorted(xs) ==
    IF xs = <<>> THEN <<>>
    ELSE LET m == Min({xs[i] : i \in DOMAIN xs})
             at == CHOOSE i \in DOMAIN xs : xs[i] = m
         IN  <<m>> \o Sorted(SubSeq(xs, 1, at - 1) \o SubSeq(xs, at + 1, Len(xs)))

\* df.groupby("CustomerName").agg(Recency, Frequency, Monetary): one row per
\* customer, Recency the days from the customer's last Date to the dataset's.
Aggregate(df) ==
    LET now   == Max({df[i].Date : i \in DOMAIN df})
        names == Distinct([i \in DOMAIN df |-> df[i].CustomerName])
        Of(c) == SelectSeq(df, LAMBDA r : r.CustomerName = c)
    IN  [i \in DOMAIN names |->
            LET rs == Of(names[i])
            IN  [CustomerName |-> names[i],
                 Recency   |-> now - Max({rs[j].Date : j \in DOMAIN rs}),
                 Frequency |-> Cardinality({rs[j].OrderId : j \in DOMAIN rs}),
                 Monetary  |-> SumSeq([j \in DOMAIN rs |-> rs[j].Revenue])]]

\* Series.quantile([0, .25, .5, .75, 1]) with linear interpolation, times 4:
\* edge j lies at position j * (n - 1) / 4 of the sorted values.
QuartileEdges4(xs) ==
    LET sorted == Sorted(xs)
        n      == Len(xs)
    IN  [e \in 1..5 |->
            LET pos4 == (e - 1) * (n - 1)
                lo   == (pos4 \div 4) + 1
                frac == pos4 % 4
            IN  IF frac = 0 THEN 4 * sorted[lo]
                ELSE 4 * sorted[lo] + frac * (sorted[lo + 1] - sorted[lo])]

\* pd.qcut(x, 4, labels=labels): ValueError when two bin edges are equal
\* (duplicates='raise'); else each value gets the label of its bin, the bins
\* being (edge, edge] with the lowest edge included.
QCut(xs, labels) ==
    LET edges == QuartileEdges4(xs)
        Bin(x) == IF 4 * x = edges[1] THEN 1
                  ELSE Min({b \in 1..4 : 4 * x <= edges[b + 1]})
    IN  IF \E a, b \in 1..5 : a # b /\ edges[a] = edges[b]
        THEN [exc |-> "ValueError", codes |-> <<>>]
        ELSE [exc |-> "", codes |-> [i \in DOMAIN xs |-> labels[Bin(xs[i])]]]

\* compute_rfm(df)
ComputeRfm(df) ==
    LET agg == Aggregate(df)
        R == QCut([i \in DOMAIN agg |-> agg[i].Recency], <<4, 3, 2, 1>>)
        F == QCut([i \in DOMAIN agg |-> agg[i].Frequency], <<1, 2, 3, 4>>)
        M == QCut([i \in DOMAIN agg |-> agg[i].Monetary], <<1, 2, 3, 4>>)
    IN  IF R.exc # "" THEN [status |-> "raised", exc |-> R.exc, val |-> <<>>]
        ELSE IF F.exc # "" THEN [status |-> "raised", exc |-> F.exc, val |-> <<>>]
        ELSE IF M.exc # "" THEN [status |-> "raised", exc |-> M.exc, val |-> <<>>]
        ELSE [status |-> "returned", exc |-> "",
              val |-> [i \in DOMAIN agg |->
                          [CustomerName |-> agg[i].CustomerName,
                           Recency |-> agg[i].Recency,
                           Frequency |-> agg[i].Frequency,
                           Monetary |-> agg[i].Monetary,
                           R |-> R.codes[i], F |-> F.codes[i], M |-> M.codes[i],
                           RFM |-> ToStr(R.codes[i]) \o ToStr(F.codes[i])
                                       \o ToStr(M.codes[i])]]]

\* The order lines of one customer: `freq` orders of one line each, the last
\* on day `day`, each worth `revenue`.
CustomerRows(c, freq, day, revenue) ==
    [j \in 1..freq |->
        [CustomerName |-> "C" \o ToStr(c), Date |-> day + j - freq,
         OrderId |-> 10 * c + j, Revenue |-> revenue]]

\* The filtered datasets: 1..MaxCustomers customers, each with 1..MaxFreq
\* orders and a level 1..MaxLevel that sets its last day and its revenue.
Dataset(freq, level) ==
    Flatten([c \in DOMAIN freq |->
                CustomerRows(c, freq[c], MaxFreq + level[c], 10 * level[c])])

NotComputed == [status |-> "pending", exc |-> "", val |-> <<>>]

ComputeRfmCall ==
    /\ rfm.status = "pending"
    /\ rfm' = ComputeRfm(fdf)
    /\ UNCHANGED <<fdf, appVars, prepVars>>

InitRfm ==
    /\ \E n \in 1..MaxCustomers :
          \E freq \in [1..n -> 1..MaxFreq], level \in [1..n -> 1..MaxLevel] :
              fdf = Dataset(freq, level)
    /\ rfm = NotComputed
    /\ AppIdle
    /\ PrepIdle

NextRfm == ComputeRfmCall

SpecRfm == InitRfm /\ [][NextRfm]_vars

(***************************************************************************)
(* Claims about the fetcher, checked under Spec, and about the loader (C3), *)
(* checked under SpecLoad.                                                 *)
(***************************************************************************)

\* C1: while at most maxsize distinct keys have been used, a call of
\* fetch_raw_tables for a key that an earlier call returned a result for
\* returns that first result again and issues no upstream query.
C1_RepeatIsCacheHit ==
    (last.called /\ last.again /\ Cardinality(used) <= maxsize)
        => /\ last.status = "returned"
           /\ last.val = first
           /\ last.queries = 0

\* A repeated call, with as many keys in use as the cache holds, made while a
\* table is unreachable: it returned the complete first result, unqueried.
C1_Witness ==
    /\ last.called /\ last.again
    /\ Cardinality(used) = maxsize
    /\ ~last.reachable
    /\ last.queries = 0
    /\ last.val = first
    /\ first.failed = {}

\* C2: when the query of a table fails during fetch_raw_tables, the call
\* still returns, that table has no rows and its defined columns, and all nine
\* tables were queried, the others returned as read.
C2_FailedTableEmptyWithColumns ==
    (last.called /\ last.broke # "")
        => /\ last.status = "returned"
           /\ Len(TablesOf(last.val)[last.broke].rows) = 0
           /\ TablesOf(last.val)[last.broke].cols = Columns(last.broke)
           /\ last.queries = Len(Tables)
           /\ \A name \in TableSet \ {last.broke} :
                  TablesOf(last.val)[name] = Upstream(last.key)[name]

\* C3: when exactly one table of the fetched result is the empty stand-in of a
\* failed query, load_data returns a prepared dataset, and when that table is
\* a lookup table the fields it describes are null in every row.
C3_PartialAvailability ==
    (last.op = "load" /\ last.called /\ last.status = "returned"
        /\ Cardinality(last.val.failed) = 1)
        => /\ last.load.status = "returned"
           /\ \A name \in last.val.failed \cap LookupNames :
                  \A i \in DOMAIN DatasetOf(last.val).rows :
                      \A c \in Columns(name) \ {LookupKey(name)} :
                          IsNull(DatasetOf(last.val).rows[i][c])

\* C4: when an earlier call for a key returned a result with a failed table
\* and every table is reachable again, a call for the same key queries the
\* upstream and returns every table's rows.
C4_RetriggerRecovers ==
    (last.called /\ last.again /\ first.failed # {} /\ last.reachable)
        => /\ last.status = "returned"
           /\ last.queries > 0
           /\ last.val.failed = {}

(***************************************************************************)
(* Claims about prepare_full_data, checked under SpecPrep.                 *)
(***************************************************************************)
OutRows == out.val.rows

\* The order line of an output row has a pack row in the raw packs table.
HasPack(r) ==
    \E i \in DOMAIN raw.packs.rows :
        ToStr(raw.packs.rows[i].PickedForOrderLine.n) = r.OrderLineId.s

\* C5: prepare_full_data completes, and every row whose order line has no
\* pack row has WeightLb = 0 and ItemCount = 0.
C5_UnpackedLinesDefaultToZero ==
    (out.status # "pending")
        => /\ out.status = "returned"
           /\ \A i \in DOMAIN OutRows :
                  ~HasPack(OutRows[i])
                      => /\ OutRows[i].WeightLb = Int_(0)
                         /\ OutRows[i].ItemCount = Int_(0)

\* C6: in every row of the prepared dataset Revenue and Cost are WeightLb
\* times SalePrice and UnitCost when UnitOfBillingId = 3 and WeightLb > 0,
\* ItemCount times SalePrice and UnitCost otherwise, and Profit is Revenue
\* minus Cost.
C6_RevenueCostProfit ==
    (out.status = "returned")
        => \A i \in DOMAIN OutRows :
               LET r == OutRows[i]
                   quantity == IF r.UnitOfBillingId = Int_(3) /\ r.WeightLb.n > 0
                               THEN r.WeightLb.n ELSE r.ItemCount.n
               IN  /\ r.Revenue = Int_(quantity * r.SalePrice.n)
                   /\ r.Cost = Int_(quantity * r.UnitCost.n)
                   /\ r.Profit = Int_(r.Revenue.n - r.Cost.n)

\* A dataset with a weight-billed row that has a profit, and an item-billed
\* row that has a cost and an item count other than its quantity shipped.
C6_Witness ==
    /\ out.status = "returned"
    /\ \E i \in DOMAIN OutRows :
           /\ OutRows[i].UnitOfBillingId = Int_(3)
           /\ OutRows[i].WeightLb.n > 0
           /\ OutRows[i].Revenue.n > 0
           /\ OutRows[i].Profit.n > 0
    /\ \E i \in DOMAIN OutRows :
           /\ OutRows[i].UnitOfBillingId # Int_(3)
           /\ OutRows[i].ItemCount.n > 0
           /\ OutRows[i].Cost.n > 0
           /\ OutRows[i].ItemCount # OutRows[i].QuantityShipped

\* The scenario of C7: one order created on 2023-01-05, shipped on 01-07 and
\* expected on 01-10, one order line (2 shipped, price 10, cost 4), no packs.
IsScenario ==
    /\ raw.orders.rows = <<OrderRow(1, Day(7), Day(10))>>
    /\ raw.order_lines.rows = <<LineRow(1, 1)>>
    /\ raw.packs.rows = <<>>

\* C7: for the scenario prepare_full_data returns one row with ItemCount 0,
\* WeightLb 0, Revenue 20, Cost 8, Profit 12, TransitDays 2 and DeliveryStatus
\* "On Time".
C7_Scenario ==
    (IsScenario /\ out.status # "pending")
        => /\ out.status = "returned"
           /\ Len(OutRows) = 1
           /\ OutRows[1].ItemCount = Int_(0)
           /\ OutRows[1].WeightLb = Int_(0)
           /\ OutRows[1].Revenue = Int_(20)
           /\ OutRows[1].Cost = Int_(8)
           /\ OutRows[1].Profit = Int_(12)
           /\ OutRows[1].TransitDays = Int_(2)
           /\ OutRows[1].DeliveryStatus = Str_("On Time")

\* The (OrderId, OrderLineId) pairs of orders joined to order_lines.
JoinPairs ==
    {<<ToStr(raw.orders.rows[i].OrderId.n), ToStr(raw.order_lines.rows[j].OrderLineId.n)>> :
        <<i, j>> \in {p \in (DOMAIN raw.orders.rows) \X (DOMAIN raw.order_lines.rows) :
                         raw.orders.rows[p[1]].OrderId = raw.order_lines.rows[p[2]].OrderId}}

OutPairs == {<<OutRows[i].OrderId.s, OutRows[i].OrderLineId.s>> : i \in DOMAIN OutRows}

OneRowPerPair == OutPairs = JoinPairs /\ Len(OutRows) = Cardinality(JoinPairs)

\* No lookup table holds two rows with the same key.
UniqueLookupKeys ==
    \A name \in LookupNames :
        \A i, j \in DOMAIN raw[name].rows :
            raw[name].rows[i][LookupKey(name)] = raw[name].rows[j][LookupKey(name)]
                => i = j

\* C8 as claimed: the returned dataset has exactly one row per (OrderId,
\* OrderLineId) pair of orders joined to order_lines, whatever the lookup
\* tables hold.
C8_OneRowPerOrderLine == (out.status = "returned") => OneRowPerPair

\* C8 as amended: the same, when no lookup table holds a key twice.
C8_OneRowPerOrderLineUniqueKeys ==
    (out.status = "returned" /\ UniqueLookupKeys) => OneRowPerPair

\* A returned dataset of two rows or more, from lookup tables with unique
\* keys, in which a lookup found nothing for some row and a row has no pack.
C8_Witness ==
    /\ out.status = "returned"
    /\ UniqueLookupKeys
    /\ Len(OutRows) >= 2
    /\ \E i \in DOMAIN OutRows : IsNull(OutRows[i].CustomerName)
    /\ \E i \in DOMAIN OutRows : ~HasPack(OutRows[i])

\* C9: in every row DeliveryStatus is null when DeliveryDate or DateExpected
\* is missing, and "On Time" or "Late" otherwise.
C9_StatusNullWhenDateMissing ==
    (out.status = "returned")
        => \A i \in DOMAIN OutRows :
               IF IsNull(OutRows[i].DeliveryDate)
                      \/ IsNull(ToDatetime(OutRows[i].DateExpected))
               THEN IsNull(OutRows[i].DeliveryStatus)
               ELSE OutRows[i].DeliveryStatus \in {Str_("On Time"), Str_("Late")}

\* C11: in every row of the prepared dataset TransitDays is null exactly when
\* ShipDate or DeliveryDate is null, is never negative, and is 0 when the
\* DeliveryDate is earlier than the ShipDate.
C11_TransitDaysNeverNegative ==
    (out.status = "returned")
        => \A i \in DOMAIN OutRows :
               LET r == OutRows[i]
               IN  IF IsNull(r.ShipDate) \/ IsNull(r.DeliveryDate)
                   THEN IsNull(r.TransitDays)
                   ELSE /\ IsInt(r.TransitDays)
                        /\ r.TransitDays.n >= 0
                        /\ (r.DeliveryDate.n < r.ShipDate.n) => r.TransitDays.n = 0

\* A returned dataset with a row delivered before it was shipped, whose
\* TransitDays is 0, and a row with a date missing, whose TransitDays is null.
C11_Witness ==
    /\ out.status = "returned"
    /\ \E i \in DOMAIN OutRows :
           /\ IsInt(OutRows[i].ShipDate) /\ IsInt(OutRows[i].DeliveryDate)
           /\ OutRows[i].DeliveryDate.n < OutRows[i].ShipDate.n
           /\ OutRows[i].TransitDays = Int_(0)
    /\ \E i \in DOMAIN OutRows :
           /\ IsNull(OutRows[i].ShipDate) \/ IsNull(OutRows[i].DeliveryDate)
           /\ IsNull(OutRows[i].TransitDays)

(***************************************************************************)
(* The claim about compute_rfm, checked under SpecRfm.                     *)
(***************************************************************************)
Scores == {"R", "F", "M"}

GroupSize(score, v) == Cardinality({i \in DOMAIN rfm.val : rfm.val[i][score] = v})

\* C10, for datasets of four customers or more: compute_rfm completes, every
\* score is in 1..4, each measure uses all four scores with group sizes that
\* differ by at most one, the customers of greatest Recency have R = 1 and
\* those of greatest Monetary have M = 4.
C10_RfmQuartiles ==
    (rfm.status # "pending" /\ Len(Aggregate(fdf)) >= 4)
        => /\ rfm.status = "returned"
           /\ \A s \in Scores :
                  /\ \A i \in DOMAIN rfm.val : rfm.val[i][s] \in 1..4
                  /\ \A v, w \in 1..4 :
                         /\ GroupSize(s, v) > 0
                         /\ GroupSize(s, v) - GroupSize(s, w) <= 1
           /\ \A i \in DOMAIN rfm.val :
                  /\ (\A j \in DOMAIN rfm.val : rfm.val[j].Recency <= rfm.val[i].Recency)
                         => rfm.val[i].R = 1
                  /\ (\A j \in DOMAIN rfm.val : rfm.val[j].Monetary <= rfm.val[i].Monetary)
                         => rfm.val[i].M = 4

====
